---- MODULE Spec2Model ----
(***************************************************************************)
(* Flow analysis of WHILE programs: AST -> CFG lowering (cfg.rs), the MFP  *)
(* worklist solver (flow_analysis/mfp.rs) with the constant-propagation    *)
(* and available-expressions lattices, and the reference interpreter       *)
(* (interpreter.rs).                                                       *)
(***************************************************************************)
EXTENDS Integers, Sequences, FiniteSets, TLC

(***************************************************************************)
(* Bounds of the model.                                                    *)
(***************************************************************************)
\* largest number of atoms (statements, nested ones included) of a generated program
MaxAtoms == 3
\* largest number of atoms the interpreter executes before the run is cut off
MaxSteps == 8

\* values of the input variable x the interpreter is started with
Inputs == {-1, 0, 1}

(***************************************************************************)
(* aexp.rs, bexp.rs, ast.rs: the syntax trees.                             *)
(***************************************************************************)
Num(n) == [tag |-> "Num", n |-> n]
Var(v) == [tag |-> "Var", v |-> v]
Add(l, r) == [tag |-> "Add", l |-> l, r |-> r]
Mul(l, r) == [tag |-> "Mul", l |-> l, r |-> r]

LessEq(l, r) == [tag |-> "LessEq", l |-> l, r |-> r]
Neg(b) == [tag |-> "Neg", b |-> b]
And(l, r) == [tag |-> "And", bl |-> l, br |-> r]
Or(l, r) == [tag |-> "Or", bl |-> l, br |-> r]

Skip == [tag |-> "Skip"]
Assign(v, a) == [tag |-> "Assign", v |-> v, a |-> a]
Cond(b, p_tt, p_ff) == [tag |-> "Cond", b |-> b, p_tt |-> p_tt, p_ff |-> p_ff]
While(b, p) == [tag |-> "While", b |-> b, p |-> p]

\* the variable names that occur in the programs of the model
VarNames == {"x", "y", "z"}

\* AExp::contains_var
RECURSIVE contains_var(_, _)
contains_var(self, x) ==
    CASE self.tag = "Num" -> FALSE
      [] self.tag = "Var" -> x = self.v
      [] OTHER -> contains_var(self.l, x) \/ contains_var(self.r, x)

\* AExp::sub_aexps
RECURSIVE AExp_sub_aexps(_)
AExp_sub_aexps(self) ==
    IF self.tag \in {"Num", "Var"}
    THEN {self}
    ELSE AExp_sub_aexps(self.l) \cup AExp_sub_aexps(self.r) \cup {self}

\* BExp::sub_aexps
RECURSIVE BExp_sub_aexps(_)
BExp_sub_aexps(self) ==
    CASE self.tag = "LessEq" -> AExp_sub_aexps(self.l) \cup AExp_sub_aexps(self.r)
      [] self.tag = "Neg" -> BExp_sub_aexps(self.b)
      [] OTHER -> BExp_sub_aexps(self.bl) \cup BExp_sub_aexps(self.br)

(***************************************************************************)
(* The programs of the model: every program of at most MaxAtoms atoms over *)
(* the leaves and the guard below (empty Cond branches and While bodies    *)
(* included), and the literal programs of the end-to-end scenarios.        *)
(***************************************************************************)
LeafAtoms == {Skip, Assign("y", Add(Var("y"), Num(1)))}
Guards == {LessEq(Var("y"), Var("x"))}

RECURSIVE AtomsOfSize(_), ProgsOfSize(_)
AtomsOfSize(s) ==
    IF s = 1
    THEN LeafAtoms
           \cup {While(b, <<>>) : b \in Guards}
           \cup {Cond(b, <<>>, <<>>) : b \in Guards}
    ELSE UNION {{While(b, p) : b \in Guards, p \in ProgsOfSize(s - 1)}}
           \cup UNION {{Cond(b, p, q) : b \in Guards, p \in ProgsOfSize(i),
                                        q \in ProgsOfSize(s - 1 - i)} : i \in 0..(s - 1)}
ProgsOfSize(n) ==
    IF n = 0
    THEN {<<>>}
    ELSE UNION {{<<a>> \o p : a \in AtomsOfSize(k), p \in ProgsOfSize(n - k)} : k \in 1..n}

\* spec.md section 8, scenarios 1 to 6
ProgSkip == <<Skip>>
ProgIncr == <<Assign("z", Add(Var("x"), Num(1)))>>
ProgSeq == <<Assign("y", Num(2)), Assign("z", Mul(Var("y"), Num(3)))>>
ProgCond == <<Cond(LessEq(Var("x"), Num(0)), <<Assign("z", Num(1))>>, <<Assign("z", Num(2))>>)>>
ProgLoop == <<Assign("y", Mul(Var("x"), Var("x"))),
              While(LessEq(Var("y"), Num(10)), <<Assign("y", Add(Var("y"), Num(1)))>>)>>
ProgDiverge == <<While(LessEq(Num(1), Num(1)), <<Skip>>)>>
\* a conditional whose branches join at a following statement
ProgJoin == <<Cond(LessEq(Var("x"), Num(0)), <<Assign("y", Num(1))>>, <<>>), Skip>>

Scenarios == {ProgSkip, ProgIncr, ProgSeq, ProgCond, ProgLoop, ProgDiverge, ProgJoin}

Programs == UNION {ProgsOfSize(n) : n \in 0..MaxAtoms} \cup Scenarios

(***************************************************************************)
(* cfg.rs: the control-flow graph.  graph.nodes is the node payloads in    *)
(* index order (NodeIdx = position), graph.edges the edges in the order    *)
(* add_edge was called.                                                    *)
(***************************************************************************)
NodeInit == [tag |-> "Init"]
NodeTerminal == [tag |-> "Terminal"]
NodeSkip == [tag |-> "Skip"]
NodeAssign(v, a) == [tag |-> "Assign", v |-> v, a |-> a]
NodeBranch(b) == [tag |-> "Branch", b |-> b]

UntargEdge(t, e) == [t |-> t, e |-> e]

\* mutant: every node is added twice
add_node_Twice(cfg, node) == [cfg EXCEPT !.nodes = Append(Append(@, node), node)]
add_node(cfg, node) == [cfg EXCEPT !.nodes = Append(@, node)]
add_edge(cfg, a, b, e) == [cfg EXCEPT !.edges = Append(@, [src |-> a, tgt |-> b, e |-> e])]

\* untarg_edges.into_iter().for_each(|UntargEdge(t, e)| cfg.graph.add_edge(t, target, e))
RECURSIVE connect(_, _, _)
connect(cfg, untarg_edges, target) ==
    IF untarg_edges = <<>>
    THEN cfg
    ELSE connect(add_edge(cfg, Head(untarg_edges).t, target, Head(untarg_edges).e),
                 Tail(untarg_edges), target)

\* the loose ends a Skip or Assign node leaves
PlainLooseEnd(node) == <<UntargEdge(node, "Plain")>>
\* the initial loose end of the subprograms of a Cond / of the body of a While
TrueLooseEnd(branch) == <<UntargEdge(branch, "True")>>
FalseLooseEnd(branch) == <<UntargEdge(branch, "False")>>
\* mutant: the loose ends of the else branch are forgotten
CondLooseEnds_TrueOnly(node_true_untarg_edges, node_false_untarg_edges) ==
    node_true_untarg_edges
\* the loose ends a Cond leaves: those of both subprograms
CondLooseEnds(node_true_untarg_edges, node_false_untarg_edges) ==
    node_true_untarg_edges \o node_false_untarg_edges
\* mutants: the loop is left along a True edge; the loop leaves no loose end
WhileLooseEnd_True(branch) == <<UntargEdge(branch, "True")>>
WhileLooseEnd_None(branch) == <<>>
\* the loose end a While leaves
WhileLooseEnd(branch) == <<UntargEdge(branch, "False")>>

RECURSIVE ast_to_cfg_extend(_, _, _), ast_atom_to_cfg_extend(_, _, _)
ast_to_cfg_extend(cfg, untarg_edges, p) ==
    IF p = <<>>
    THEN [cfg |-> cfg, ends |-> untarg_edges]
    ELSE LET r == ast_atom_to_cfg_extend(cfg, untarg_edges, Head(p))
         IN  ast_to_cfg_extend(r.cfg, r.ends, Tail(p))

ast_atom_to_cfg_extend(cfg, untarg_edges, p) ==
    LET new == Len(cfg.nodes) + 1
    IN CASE p.tag = "Skip" ->
              [cfg |-> connect(add_node(cfg, NodeSkip), untarg_edges, new),
               ends |-> PlainLooseEnd(new)]
         [] p.tag = "Assign" ->
              [cfg |-> connect(add_node(cfg, NodeAssign(p.v, p.a)), untarg_edges, new),
               ends |-> PlainLooseEnd(new)]
         [] p.tag = "Cond" ->
              LET c0 == connect(add_node(cfg, NodeBranch(p.b)), untarg_edges, new)
                  rt == ast_to_cfg_extend(c0, TrueLooseEnd(new), p.p_tt)
                  rf == ast_to_cfg_extend(rt.cfg, FalseLooseEnd(new), p.p_ff)
              IN  [cfg |-> rf.cfg, ends |-> CondLooseEnds(rt.ends, rf.ends)]
         [] p.tag = "While" ->
              LET c0 == connect(add_node(cfg, NodeBranch(p.b)), untarg_edges, new)
                  rb == ast_to_cfg_extend(c0, TrueLooseEnd(new), p.p)
              IN  [cfg |-> connect(rb.cfg, rb.ends, new), ends |-> WhileLooseEnd(new)]

\* the CFG ast_to_cfg starts from: the Init node alone; NodeIdx 1 is cfg.init
node_init == 1
EmptyCfg == [nodes |-> <<NodeInit>>, edges |-> <<>>, init |-> node_init]

\* mutant: lowering starts without a loose end at Init
init_untarg_edges_None == <<>>
\* line 77: the loose end lowering starts from
init_untarg_edges == <<UntargEdge(node_init, "Plain")>>

\* the loose ends of the outermost program
terminals(p) == ast_to_cfg_extend(EmptyCfg, init_untarg_edges, p).ends

\* mutants: only True loose ends are wired to Terminal; every loose end is
IsRelevant_TrueOnly(ue) == ue.e = "True"
IsRelevant_All(ue) == TRUE
\* terminals.iter().filter(|UntargEdge(_, e)| *e != Edge::Plain)
IsRelevant(ue) == ue.e # "Plain"
terminals_relevant(ts) == SelectSeq(ts, IsRelevant)

ast_to_cfg(p) ==
    LET r == ast_to_cfg_extend(EmptyCfg, init_untarg_edges, p)
        rel == terminals_relevant(r.ends)
    IN  IF rel # <<>>
        THEN connect(add_node(r.cfg, NodeTerminal), rel, Len(r.cfg.nodes) + 1)
        ELSE r.cfg

\* Cfg::predecessors / Cfg::successors: petgraph lists the neighbours along the
\* node's edge list, whose head is the edge added last
neighbor_edges(edges, n, dir) ==
    {i \in 1..Len(edges) : IF dir = "Incoming" THEN edges[i].tgt = n ELSE edges[i].src = n}
neighbors_directed(edges, n, dir) ==
    LET idx == neighbor_edges(edges, n, dir)
        \* the k-th newest of the node's edges
        kth(k) == CHOOSE i \in idx : Cardinality({j \in idx : j > i}) = k - 1
    IN  [k \in 1..Cardinality(idx) |->
            IF dir = "Incoming" THEN edges[kth(k)].src ELSE edges[kth(k)].tgt]
\* Option<Vec1<NodeIdx>>: the empty sequence stands for None
predecessors(cfg, n) == neighbors_directed(cfg.edges, n, "Incoming")
successors(cfg, n) == neighbors_directed(cfg.edges, n, "Outgoing")

node_indices(cfg) == 1..Len(cfg.nodes)

(***************************************************************************)
(* flow_analysis/const_prop.rs: ConstLat and MultiConstLat.                *)
(***************************************************************************)
Top == [tag |-> "Top"]
Const(k) == [tag |-> "Const", n |-> k]
Bot == [tag |-> "Bot"]

ConstLat_join_bin(self, other) ==
    IF self = Top \/ other = Top THEN Top
    ELSE IF self = Bot THEN other
    ELSE IF other = Bot THEN self
    ELSE IF self = other THEN self ELSE Top

EmptyMap == [v \in {} |-> Bot]
MultiConstLat(map, default) == [map |-> map, default |-> default]
\* mutant: the new binding replaces the map
insert_Alone(self, x, v) == [self EXCEPT !.map = [k \in {x} |-> v]]
insert(self, x, v) ==
    [self EXCEPT !.map = [k \in DOMAIN self.map \cup {x} |-> IF k = x THEN v ELSE self.map[k]]]
lookup(self, x) == IF x \in DOMAIN self.map THEN self.map[x] ELSE self.default

\* mutant: an operand Top does not make the result Top
eval_bin_op_NoTop(self, f, other) ==
    IF self.tag = "Const" /\ other.tag = "Const"
    THEN Const(IF f = "plus" THEN self.n + other.n ELSE self.n * other.n)
    ELSE Bot
eval_bin_op(self, f, other) ==
    IF self.tag = "Const" /\ other.tag = "Const"
    THEN Const(IF f = "plus" THEN self.n + other.n ELSE self.n * other.n)
    ELSE IF self = Top \/ other = Top THEN Top
    ELSE Bot

RECURSIVE MultiConstLat_eval_aexp(_, _)
MultiConstLat_eval_aexp(self, a) ==
    CASE a.tag = "Num" -> Const(a.n)
      [] a.tag = "Var" -> lookup(self, a.v)
      [] a.tag = "Add" ->
           eval_bin_op(MultiConstLat_eval_aexp(self, a.l), "plus", MultiConstLat_eval_aexp(self, a.r))
      [] a.tag = "Mul" ->
           eval_bin_op(MultiConstLat_eval_aexp(self, a.l), "mul", MultiConstLat_eval_aexp(self, a.r))

\* the value join_bin stores for a key x of other.map that self.map lacks
JoinOtherOnly(self, other, x) == ConstLat_join_bin(other.map[x], lookup(other, x))

MultiConstLat_join_bin(self, other) ==
    LET m == [x \in DOMAIN self.map \cup DOMAIN other.map |->
                IF x \in DOMAIN self.map
                THEN ConstLat_join_bin(self.map[x], lookup(other, x))
                ELSE JoinOtherOnly(self, other, x)]
        d == ConstLat_join_bin(self.default, other.default)
    IN  MultiConstLat(m, d)

MultiConstLat_eval_transfer_function(n, mem) ==
    IF n.tag = "Assign"
    THEN insert(mem, n.v, MultiConstLat_eval_aexp(mem, n.a))
    ELSE mem

MultiConstLat_init_start == insert(MultiConstLat(EmptyMap, Const(0)), "x", Top)
MultiConstLat_init == MultiConstLat(EmptyMap, Bot)

(***************************************************************************)
(* flow_analysis/avail_exp.rs: ExpSetLat.                                  *)
(***************************************************************************)
ExpSetLat(set) == [set |-> set]
\* ExpSetLat::clear_var: remove all expressions that contain the variable x
clear_var(self, x) == ExpSetLat({a \in self.set : ~contains_var(a, x)})
\* ExpSetLat::extend: add a set of expressions
extend(self, set) == ExpSetLat(self.set \cup set)
ExpSetLat_join_bin(self, other) == ExpSetLat(self.set \cap other.set)
\* mutant: Assign and Branch nodes generate their subexpressions, Assign kills
\* the expressions that mention the assigned variable
ExpSetLat_eval_transfer_function_GenKill(n, set) ==
    CASE n.tag = "Assign" -> clear_var(extend(set, AExp_sub_aexps(n.a)), n.v)
      [] n.tag = "Branch" -> extend(set, BExp_sub_aexps(n.b))
      [] OTHER -> set
ExpSetLat_eval_transfer_function(n, set) == set
ExpSetLat_init == ExpSetLat({})
ExpSetLat_init_start == ExpSetLat_init

(***************************************************************************)
(* flow_analysis/common.rs: the traits SemiLat and FlowSemantics; L names  *)
(* the implementing type.                                                  *)
(***************************************************************************)
Lattices == {"MultiConstLat", "ExpSetLat"}

join_bin(L, self, other) ==
    IF L = "MultiConstLat" THEN MultiConstLat_join_bin(self, other)
    ELSE ExpSetLat_join_bin(self, other)
eval_transfer_function(L, n, x) ==
    IF L = "MultiConstLat" THEN MultiConstLat_eval_transfer_function(n, x)
    ELSE ExpSetLat_eval_transfer_function(n, x)
init(L) == IF L = "MultiConstLat" THEN MultiConstLat_init ELSE ExpSetLat_init
init_start(L) == IF L = "MultiConstLat" THEN MultiConstLat_init_start ELSE ExpSetLat_init_start

\* SemiLat::join: tl.iter().fold(hd.clone(), |acc, x| join_bin(&acc, x)), tl = all of vs
fold_join(L, acc, tl) ==
    LET f[i \in 0..Len(tl)] == IF i = 0 THEN acc ELSE join_bin(L, f[i - 1], tl[i])
    IN  f[Len(tl)]
join(L, vs) == fold_join(L, Head(vs), vs)

(***************************************************************************)
(* flow_analysis/mfp.rs: the worklist solver.                              *)
(***************************************************************************)
MfpAnnot(pre, post) == [pre |-> pre, post |-> post]

\* mutant: the Init node gets init() like every other node
mfp_annot0_AllInit(L, cfg) == [n \in node_indices(cfg) |-> MfpAnnot(init(L), init(L))]
\* lines 22-25: every node gets init(), the Init node init_start()
mfp_annot0(L, cfg) ==
    [n \in node_indices(cfg) |->
        IF n = cfg.init THEN MfpAnnot(init_start(L), init_start(L))
        ELSE MfpAnnot(init(L), init(L))]
\* mutant: the Init node is left in the worklist
mfp_worklist0_WithInit(cfg) == node_indices(cfg)
\* lines 28-30
mfp_worklist0(cfg) == node_indices(cfg) \ {cfg.init}

\* line 35: worklist.remove(&n)
worklist_remove(worklist, n) == worklist \ {n}
\* mutant: the successors are added to the worklist
worklist_union_Extend(worklist, succs) == worklist \cup succs
\* line 48: worklist.union(..) builds a lazy iterator over the union and drops it;
\* the worklist itself is left as it is
worklist_union(worklist, succs) == worklist

\* lines 38-40: the posts of the predecessors, joined
mfp_pre(L, cfg, annot, n) ==
    join(L, [i \in 1..Len(predecessors(cfg, n)) |-> annot[predecessors(cfg, n)[i]].post])

\* mutant: the transfer function is applied to the pre annotation of the
\* previous visit
mfp_iteration_OldPre(L, cfg, annot, worklist, n) ==
    LET pre == mfp_pre(L, cfg, annot, n)
        f_in_n == eval_transfer_function(L, cfg.nodes[n], annot[n].pre)
        wl == worklist_remove(worklist, n)
    IN  IF f_in_n # annot[n].post
        THEN [annot |-> [annot EXCEPT ![n] = MfpAnnot(pre, f_in_n)],
              worklist |-> worklist_union(wl, {successors(cfg, n)[i] : i \in 1..Len(successors(cfg, n))})]
        ELSE [annot |-> [annot EXCEPT ![n].pre = pre], worklist |-> wl]
\* lines 37-49: one iteration of the loop on node n (predecessors(n) is not None)
mfp_iteration(L, cfg, annot, worklist, n) ==
    LET pre == mfp_pre(L, cfg, annot, n)
        f_in_n == eval_transfer_function(L, cfg.nodes[n], pre)
        wl == worklist_remove(worklist, n)
    IN  IF f_in_n # annot[n].post
        THEN [annot |-> [annot EXCEPT ![n] = MfpAnnot(pre, f_in_n)],
              worklist |-> worklist_union(wl, {successors(cfg, n)[i] : i \in 1..Len(successors(cfg, n))})]
        ELSE [annot |-> [annot EXCEPT ![n].pre = pre], worklist |-> wl]

(***************************************************************************)
(* interpreter.rs: the reference interpreter.                              *)
(***************************************************************************)
MemConfig_new == [v \in {} |-> 0]
MemConfig_lookup(mem, x) == IF x \in DOMAIN mem THEN mem[x] ELSE 0
MemConfig_assign(mem, x, n) == [k \in DOMAIN mem \cup {x} |-> IF k = x THEN n ELSE mem[k]]

RECURSIVE eval_aexp(_, _)
eval_aexp(a, mem) ==
    CASE a.tag = "Num" -> a.n
      [] a.tag = "Var" -> MemConfig_lookup(mem, a.v)
      [] a.tag = "Add" -> eval_aexp(a.l, mem) + eval_aexp(a.r, mem)
      [] a.tag = "Mul" -> eval_aexp(a.l, mem) * eval_aexp(a.r, mem)

RECURSIVE eval_bexp(_, _)
eval_bexp(a, mem) ==
    CASE a.tag = "LessEq" -> eval_aexp(a.l, mem) <= eval_aexp(a.r, mem)
      [] a.tag = "Or" -> eval_bexp(a.bl, mem) \/ eval_bexp(a.br, mem)
      [] a.tag = "And" -> eval_bexp(a.bl, mem) /\ eval_bexp(a.br, mem)
      [] a.tag = "Neg" -> ~eval_bexp(a.b, mem)

\* what an observer of a run sees: the assignments made and the guards evaluated
EvAssign(x, n) == [ev |-> "assign", v |-> x, n |-> n]
EvGuard(b, result) == [ev |-> "guard", b |-> b, r |-> result]

\* eval_prog_atom on the first atom of the atoms still to run (todo): the memory
\* it leaves, the atoms to run after it (eval_prog's fold and the while loop,
\* unfolded one atom at a time), and what was observed
eval_prog_atom(todo, mem) ==
    LET p == Head(todo)
        rest == Tail(todo)
    IN CASE p.tag = "Skip" -> [mem |-> mem, todo |-> rest, obs |-> <<>>]
         [] p.tag = "Assign" ->
              LET n == eval_aexp(p.a, mem)
              IN  [mem |-> MemConfig_assign(mem, p.v, n), todo |-> rest,
                   obs |-> <<EvAssign(p.v, n)>>]
         [] p.tag = "Cond" ->
              LET result == eval_bexp(p.b, mem)
              IN  [mem |-> mem, todo |-> (IF result THEN p.p_tt ELSE p.p_ff) \o rest,
                   obs |-> <<EvGuard(p.b, result)>>]
         [] p.tag = "While" ->
              LET result == eval_bexp(p.b, mem)
              IN  [mem |-> mem, todo |-> IF result THEN p.p \o todo ELSE rest,
                   obs |-> <<EvGuard(p.b, result)>>]

(***************************************************************************)
(* Executing a CFG: at a Skip/Assign node apply its effect and follow the  *)
(* Plain edge, at a Branch node evaluate the guard and follow the True or  *)
(* False edge, stop at a node without such an edge.  0 stands for "no      *)
(* next node".                                                             *)
(***************************************************************************)
out_edges(cfg, n, e) == {i \in 1..Len(cfg.edges) : cfg.edges[i].src = n /\ cfg.edges[i].e = e}
follow(cfg, n, e) ==
    IF out_edges(cfg, n, e) = {} THEN 0
    ELSE cfg.edges[CHOOSE i \in out_edges(cfg, n, e) : TRUE].tgt

cfg_step(cfg, n, mem) ==
    LET node == cfg.nodes[n]
    IN CASE node.tag = "Assign" ->
              LET k == eval_aexp(node.a, mem)
              IN  [mem |-> MemConfig_assign(mem, node.v, k), next |-> follow(cfg, n, "Plain"),
                   obs |-> <<EvAssign(node.v, k)>>]
         [] node.tag = "Branch" ->
              LET result == eval_bexp(node.b, mem)
              IN  [mem |-> mem, next |-> follow(cfg, n, IF result THEN "True" ELSE "False"),
                   obs |-> <<EvGuard(node.b, result)>>]
         [] OTHER -> [mem |-> mem, next |-> follow(cfg, n, "Plain"), obs |-> <<>>]

(***************************************************************************)
(* main.rs: the state of one run of the tool.                              *)
(***************************************************************************)
VARIABLES
    prog,       \* the parsed program
    mode,       \* "interpret" (-i), "const_prop" (-c) or "avail_exp" (-a)
    input,      \* the value of -i
    pc,         \* where the run is
    cfg,        \* the lowered CFG
    annot,      \* mfp: the annotation of each node
    worklist,   \* mfp: the worklist
    iters,      \* mfp: iterations of the loop so far
    mem,        \* eval: the memory
    todo,       \* eval: the atoms still to run
    trace,      \* eval: what was observed so far
    steps,      \* eval: atoms executed so far
    cur,        \* CFG execution: the node to visit next
    wmem,       \* CFG execution: the memory
    wtrace,     \* CFG execution: what was observed so far
    wsteps,     \* CFG execution: nodes visited so far
    lk,         \* lattice operations: the type the operands are values of
    la,         \* lattice operations: the first operand
    lb,         \* lattice operations: the second operand
    lc,         \* lattice operations: the third operand
    ln,         \* lattice operations: the node of the transfer function
    lop,        \* lattice operations: the operation applied
    lres        \* lattice operations: what the operation returned

vars == <<prog, mode, input, pc, cfg, annot, worklist, iters, mem, todo, trace, steps,
          cur, wmem, wtrace, wsteps, lk, la, lb, lc, ln, lop, lres>>
mfpVars == <<annot, worklist, iters>>
evalVars == <<mem, todo, trace, steps>>
walkVars == <<cur, wmem, wtrace, wsteps>>
latVars == <<lk, la, lb, lc, ln, lop, lres>>
mainVars == <<prog, mode, input, pc, cfg, mfpVars, evalVars, walkVars>>

Modes == {"interpret", "const_prop", "avail_exp"}
LatOf(m) == IF m = "avail_exp" THEN "ExpSetLat" ELSE "MultiConstLat"
lat == LatOf(mode)

\* no lattice operation is applied on its own
LatIdle ==
    /\ lk = "ConstLat"
    /\ la = Bot
    /\ lb = Bot
    /\ lc = Bot
    /\ ln = NodeInit
    /\ lop = "none"
    /\ lres = <<>>

\* the tool has been started
MainInit ==
    /\ pc = "start"
    /\ prog = <<>>
    /\ mode = "const_prop"
    /\ input = 0
    /\ cfg = EmptyCfg
    /\ annot = <<>>
    /\ worklist = {}
    /\ iters = 0
    /\ mem = MemConfig_new
    /\ todo = <<>>
    /\ trace = <<>>
    /\ steps = 0
    /\ cur = 0
    /\ wmem = MemConfig_new
    /\ wtrace = <<>>
    /\ wsteps = 0

Init == MainInit /\ LatIdle

\* main.rs 10-30: read the command line and parse the program on stdin
\* (-i VALUE: interpret; -a without -c: available expressions; else constant
\* propagation)
ReadInput(ms, is) ==
    /\ pc = "start"
    /\ \E p \in Programs, m \in ms :
         /\ prog' = p
         /\ mode' = m
         /\ \E i \in (IF m = "interpret" THEN Inputs ELSE is) : input' = i
    /\ pc' = "main"
    /\ UNCHANGED <<cfg, mfpVars, evalVars, walkVars, latVars>>

Main == ReadInput(Modes, {0})

\* main.rs 40-52 and mfp.rs 22-30: lower the program and set up the solver
MfpStart ==
    /\ pc = "main"
    /\ mode # "interpret"
    /\ cfg' = ast_to_cfg(prog)
    /\ annot' = mfp_annot0(lat, cfg')
    /\ worklist' = mfp_worklist0(cfg')
    /\ pc' = "mfp_loop"
    /\ UNCHANGED <<prog, mode, input, iters, evalVars, walkVars, latVars>>

\* mfp.rs 32-50: one iteration; unwrap() panics when the node has no predecessor
MfpIteration ==
    /\ pc = "mfp_loop"
    /\ \E n \in worklist :
         IF predecessors(cfg, n) = <<>>
         THEN /\ pc' = "panic"
              /\ UNCHANGED <<annot, worklist>>
         ELSE LET r == mfp_iteration(lat, cfg, annot, worklist, n)
              IN  /\ annot' = r.annot
                  /\ worklist' = r.worklist
                  /\ pc' = pc
    /\ iters' = iters + 1
    /\ UNCHANGED <<prog, mode, input, cfg, evalVars, walkVars, latVars>>

\* mfp.rs 32, 52: the worklist is empty, mfp returns
MfpReturn ==
    /\ pc = "mfp_loop"
    /\ worklist = {}
    /\ pc' = "mfp_returned"
    /\ UNCHANGED <<prog, mode, input, cfg, mfpVars, evalVars, walkVars, latVars>>

\* interpreter.rs 30-33: eval installs x = input
EvalStart ==
    /\ pc = "main"
    /\ mode = "interpret"
    /\ mem' = MemConfig_assign(MemConfig_new, "x", input)
    /\ todo' = prog
    /\ pc' = "eval"
    /\ UNCHANGED <<prog, mode, input, cfg, mfpVars, trace, steps, walkVars, latVars>>

\* interpreter.rs 44-68: run the next atom
EvalStep ==
    /\ pc = "eval"
    /\ todo # <<>>
    /\ steps < MaxSteps
    /\ LET r == eval_prog_atom(todo, mem)
       IN  /\ mem' = r.mem
           /\ todo' = r.todo
           /\ trace' = trace \o r.obs
    /\ steps' = steps + 1
    /\ UNCHANGED <<prog, mode, input, pc, cfg, mfpVars, walkVars, latVars>>

\* interpreter.rs 34: eval_prog has returned
EvalReturn ==
    /\ pc = "eval"
    /\ todo = <<>>
    /\ pc' = "eval_returned"
    /\ UNCHANGED <<prog, mode, input, cfg, mfpVars, evalVars, walkVars, latVars>>

\* the run is longer than the model follows it
EvalCutOff ==
    /\ pc = "eval"
    /\ todo # <<>>
    /\ steps = MaxSteps
    /\ pc' = "eval_cut_off"
    /\ UNCHANGED <<prog, mode, input, cfg, mfpVars, evalVars, walkVars, latVars>>

\* execute the lowered CFG on the same input
WalkStart ==
    /\ pc = "eval_returned"
    /\ cfg' = ast_to_cfg(prog)
    /\ cur' = cfg'.init
    /\ wmem' = MemConfig_assign(MemConfig_new, "x", input)
    /\ pc' = "walk"
    /\ UNCHANGED <<prog, mode, input, mfpVars, evalVars, wtrace, wsteps, latVars>>

\* visit the node cur
WalkStep ==
    /\ pc = "walk"
    /\ cur # 0
    /\ wsteps < MaxSteps + 2
    /\ LET r == cfg_step(cfg, cur, wmem)
       IN  /\ wmem' = r.mem
           /\ cur' = r.next
           /\ wtrace' = wtrace \o r.obs
    /\ wsteps' = wsteps + 1
    /\ UNCHANGED <<prog, mode, input, pc, cfg, mfpVars, evalVars, latVars>>

WalkStop ==
    /\ pc = "walk"
    /\ cur = 0 \/ wsteps = MaxSteps + 2
    /\ pc' = IF cur = 0 THEN "walk_stopped" ELSE "walk_cut_off"
    /\ UNCHANGED <<prog, mode, input, cfg, mfpVars, evalVars, walkVars, latVars>>

Next ==
    \/ Main
    \/ MfpStart
    \/ MfpIteration
    \/ MfpReturn
    \/ EvalStart
    \/ EvalStep
    \/ EvalReturn
    \/ EvalCutOff
    \/ WalkStart
    \/ WalkStep
    \/ WalkStop

Spec == Init /\ [][Next]_vars

\* An iteration of mfp's loop is the one step that changes iters, and it can be
\* taken exactly when the loop is at a non-empty worklist.
MfpLoopStep ==
    /\ pc = "mfp_loop"
    /\ worklist # {}
    /\ iters' = iters + 1

\* the thread that runs mfp keeps running: the loop takes its next iteration and
\* the function returns when the loop is left
FairSpec == Spec /\ WF_iters(MfpLoopStep) /\ WF_vars(MfpReturn)

(***************************************************************************)
(* Constant propagation followed by a run of the program: the CFG is       *)
(* solved, then executed on an input.                                      *)
(***************************************************************************)
\* the tool is run with -c; the input is the one the program is executed on later
MainSound == ReadInput({"const_prop"}, Inputs)

SoundStart ==
    /\ pc = "mfp_returned"
    /\ cur' = cfg.init
    /\ wmem' = MemConfig_assign(MemConfig_new, "x", input)
    /\ pc' = "walk"
    /\ UNCHANGED <<prog, mode, input, cfg, mfpVars, evalVars, wtrace, wsteps, latVars>>

NextSound ==
    \/ MainSound
    \/ MfpStart
    \/ MfpIteration
    \/ MfpReturn
    \/ SoundStart
    \/ WalkStep
    \/ WalkStop

SpecSound == Init /\ [][NextSound]_vars

(***************************************************************************)
(* The lattice operations applied on their own (common.rs: SemiLat and     *)
(* FlowSemantics, for ConstLat, MultiConstLat and ExpSetLat): two operands *)
(* are drawn, then join_bin or eval_transfer_function is applied to them.  *)
(***************************************************************************)
\* largest constant of a drawn ConstLat value
MaxConst == 1

ConstLatValues == {Top, Bot} \cup {Const(k) : k \in 0..MaxConst}
\* the keys a drawn environment may have; y, z are looked up through the default
EnvKeys == {"x"}
MultiConstLatValues ==
    {MultiConstLat(m, d) : m \in UNION {[K -> ConstLatValues] : K \in SUBSET EnvKeys},
                           d \in ConstLatValues}
\* the expressions a drawn expression set may hold
LatExps == AExp_sub_aexps(Add(Var("x"), Num(1))) \cup {Var("y")}
ExpSetLatValues == {ExpSetLat(S) : S \in SUBSET LatExps}

LatTypes == {"ConstLat", "MultiConstLat", "ExpSetLat"}
LatValues(T) ==
    CASE T = "ConstLat" -> ConstLatValues
      [] T = "MultiConstLat" -> MultiConstLatValues
      [] T = "ExpSetLat" -> ExpSetLatValues

\* the nodes the transfer function is applied to: one of every kind
LatNodes ==
    {NodeInit, NodeTerminal, NodeSkip,
     NodeBranch(LessEq(Var("y"), Var("x"))),
     NodeBranch(Or(And(LessEq(Var("x"), Num(1)), LessEq(Num(0), Var("z"))),
                   Neg(LessEq(Mul(Var("y"), Var("y")), Var("x"))))),
     NodeAssign("x", Add(Var("x"), Num(1))),
     NodeAssign("y", Mul(Var("x"), Add(Var("y"), Num(1)))),
     NodeAssign("z", Num(1))}

\* SemiLat::join_bin of the type T
SemiLat_join_bin(T, self, other) ==
    IF T = "ConstLat" THEN ConstLat_join_bin(self, other) ELSE join_bin(T, self, other)

LatInit ==
    /\ MainInit
    /\ lk \in LatTypes
    /\ la \in LatValues(lk)
    /\ lb \in LatValues(lk)
    /\ lc = Bot
    /\ ln = NodeInit
    /\ lop = "none"
    /\ lres = <<>>

\* la.join_bin(&lb), lb.join_bin(&la), la.join_bin(&la)
ApplyJoinBin ==
    /\ lop = "none"
    /\ lres' = [ab |-> SemiLat_join_bin(lk, la, lb),
                ba |-> SemiLat_join_bin(lk, lb, la),
                aa |-> SemiLat_join_bin(lk, la, la)]
    /\ lop' = "join_bin"
    /\ UNCHANGED <<mainVars, lk, la, lb, lc, ln>>

\* la.join_bin(&lb).join_bin(&c), la.join_bin(&lb.join_bin(&c))
ApplyJoinBin3 ==
    /\ lop = "none"
    /\ \E c \in LatValues(lk) :
         /\ lc' = c
         /\ lres' = [ab_c |-> SemiLat_join_bin(lk, SemiLat_join_bin(lk, la, lb), c),
                     a_bc |-> SemiLat_join_bin(lk, la, SemiLat_join_bin(lk, lb, c))]
    /\ lop' = "join_bin3"
    /\ UNCHANGED <<mainVars, lk, la, lb, ln>>

\* eval_transfer_function(&n, &la), eval_transfer_function(&n, &lb)
ApplyTransfer ==
    /\ lop = "none"
    /\ lk \in Lattices
    /\ \E n \in LatNodes :
         /\ ln' = n
         /\ lres' = [fa |-> eval_transfer_function(lk, n, la),
                     fb |-> eval_transfer_function(lk, n, lb)]
    /\ lop' = "eval_transfer_function"
    /\ UNCHANGED <<mainVars, lk, la, lb, lc>>

NextLat ==
    \/ ApplyJoinBin
    \/ ApplyJoinBin3
    \/ ApplyTransfer

SpecLat == LatInit /\ [][NextLat]_vars

(***************************************************************************)
(* Properties.                                                             *)
(***************************************************************************)
\* cfg holds ast_to_cfg(prog)
Lowered == pc \in {"mfp_loop", "mfp_returned", "panic", "walk", "walk_stopped", "walk_cut_off"}
NonInit == node_indices(cfg) \ {cfg.init}
NodesOf(tag) == {n \in node_indices(cfg) : cfg.nodes[n].tag = tag}
EdgesInto(n) == {i \in 1..Len(cfg.edges) : cfg.edges[i].tgt = n}
EdgesFrom(n) == {i \in 1..Len(cfg.edges) : cfg.edges[i].src = n}

\* C1: when mfp returns, every non-Init node n has pre(n) = join of post(p) over
\* its predecessors p, and one more iteration on any node changes no annotation.
C1_FixedPoint ==
    pc = "mfp_returned" =>
        \A n \in NonInit :
            /\ annot[n].pre = mfp_pre(lat, cfg, annot, n)
            /\ mfp_iteration(lat, cfg, annot, {}, n).annot = annot

\* C2: mfp terminates on the CFG of every program, for both lattices: once its
\* loop is entered, mfp returns.
C2_Terminates == (pc = "mfp_loop") ~> (pc = "mfp_returned")

\* C2 witness: mfp has returned on `while 1 <= 1 do skip end`, for the
\* available-expressions lattice.
C2_Witness ==
    /\ pc = "mfp_returned"
    /\ prog = ProgDiverge
    /\ mode = "avail_exp"
    /\ iters = 3

\* mfp with the nodes taken from the worklist in index order
Min(S) == CHOOSE m \in S : \A k \in S : m <= k
RECURSIVE mfp_in_index_order(_, _, _, _)
mfp_in_index_order(L, g, a, w) ==
    IF w = {} THEN a
    ELSE LET r == mfp_iteration(L, g, a, w, Min(w))
         IN  mfp_in_index_order(L, g, r.annot, r.worklist)

\* C3: the result of mfp does not depend on the order in which nodes are taken
\* from the worklist: every run ends with the annotations of the run that takes
\* them in index order.
C3_OrderIndependent ==
    pc = "mfp_returned" =>
        annot = mfp_in_index_order(lat, cfg, mfp_annot0(lat, cfg), mfp_worklist0(cfg))

\* C4: constant propagation is sound: at every visit of a node n, a variable to
\* which pre(n) gives Const(k) holds k in the memory.
C4_Sound ==
    (pc = "walk" /\ cur # 0) =>
        \A v \in VarNames :
            lookup(annot[cur].pre, v).tag = "Const" =>
                MemConfig_lookup(wmem, v) = lookup(annot[cur].pre, v).n

IsPrefix(s, t) == Len(s) <= Len(t) /\ SubSeq(t, 1, Len(s)) = s

\* C5: executing the lowered CFG makes the same assignments and guard
\* evaluations, in the same order, as eval_prog on the AST, and ends in the same
\* memory, whenever eval_prog terminates.
C5_SameRun ==
    /\ pc = "walk" => IsPrefix(wtrace, trace)
    /\ pc = "walk_stopped" => wtrace = trace /\ wmem = mem
    /\ pc # "walk_cut_off"

\* C5 witness: a While nested in a Cond ran two rounds and the CFG run stopped.
C5_Witness ==
    /\ pc = "walk_stopped"
    /\ prog = <<Cond(LessEq(Var("y"), Var("x")),
                     <<While(LessEq(Var("y"), Var("x")), <<Assign("y", Add(Var("y"), Num(1)))>>)>>,
                     <<>>)>>
    /\ input = 1
    /\ Len(wtrace) = 6
    /\ MemConfig_lookup(wmem, "y") = 2

\* C6: each Branch node has exactly one True and exactly one False outgoing edge
\* and no Plain one; every other node has only Plain outgoing edges.
C6_BranchEdges ==
    Lowered =>
        \A n \in node_indices(cfg) :
            IF cfg.nodes[n].tag = "Branch"
            THEN /\ Cardinality(out_edges(cfg, n, "True")) = 1
                 /\ Cardinality(out_edges(cfg, n, "False")) = 1
                 /\ out_edges(cfg, n, "Plain") = {}
            ELSE out_edges(cfg, n, "True") = {} /\ out_edges(cfg, n, "False") = {}

\* C6 witness: a Cond with two empty branches followed by a While with an empty
\* body has been lowered.
C6_Witness ==
    /\ Lowered
    /\ prog = <<Cond(LessEq(Var("y"), Var("x")), <<>>, <<>>), While(LessEq(Var("y"), Var("x")), <<>>)>>
    /\ Len(cfg.edges) = 5
    /\ Cardinality(EdgesInto(3)) = 3

\* the node an atom is lowered to
NodeOfAtom(a) ==
    CASE a.tag = "Skip" -> NodeSkip
      [] a.tag = "Assign" -> NodeAssign(a.v, a.a)
      [] OTHER -> NodeBranch(a.b)

\* C7: there is exactly one Init node, it is cfg.init and no edge enters it; for a
\* non-empty program it has exactly one outgoing edge, a Plain one to the node
\* of the first atom; for the empty program the CFG is the Init node alone.
C7_InitNode ==
    Lowered =>
        /\ NodesOf("Init") = {cfg.init}
        /\ EdgesInto(cfg.init) = {}
        /\ prog # <<>> =>
              /\ Cardinality(EdgesFrom(cfg.init)) = 1
              /\ \A i \in EdgesFrom(cfg.init) :
                    /\ cfg.edges[i].e = "Plain"
                    /\ cfg.edges[i].tgt # cfg.init
                    /\ cfg.nodes[cfg.edges[i].tgt] = NodeOfAtom(Head(prog))
        /\ prog = <<>> => cfg.nodes = <<NodeInit>> /\ cfg.edges = <<>>

\* C7 witness: a program that starts with a loop has been lowered, the loop's
\* back edge enters the first node and not Init.
C7_Witness ==
    /\ Lowered
    /\ prog = <<While(LessEq(Var("y"), Var("x")), <<Skip>>), Skip>>
    /\ Cardinality(EdgesInto(2)) = 2

\* the True or False loose ends of the outermost program
RelevantEnds == {i \in 1..Len(terminals(prog)) : terminals(prog)[i].e # "Plain"}

\* C8: a Terminal node is created iff a True or False loose end remains after
\* lowering the outermost program; there is at most one, exactly those loose ends
\* are wired to it, it has no outgoing edge, and `skip` yields Init -> Skip alone.
C8_Terminal ==
    Lowered =>
        /\ (NodesOf("Terminal") # {}) <=> (RelevantEnds # {})
        /\ Cardinality(NodesOf("Terminal")) <= 1
        /\ \A t \in NodesOf("Terminal") :
              /\ EdgesFrom(t) = {}
              /\ {<<cfg.edges[i].src, cfg.edges[i].e>> : i \in EdgesInto(t)}
                   = {<<terminals(prog)[i].t, terminals(prog)[i].e>> : i \in RelevantEnds}
              /\ Cardinality(EdgesInto(t)) = Cardinality(RelevantEnds)
        /\ prog = ProgSkip =>
              /\ cfg.nodes = <<NodeInit, NodeSkip>>
              /\ cfg.edges = <<[src |-> 1, tgt |-> 2, e |-> "Plain"]>>

\* C8 witness: a Cond with a Skip in one branch and nothing in the other has been
\* lowered: the False loose end goes to the Terminal node, the Plain one is dropped.
C8_Witness ==
    /\ Lowered
    /\ prog = <<Cond(LessEq(Var("y"), Var("x")), <<Skip>>, <<>>)>>
    /\ cfg.nodes[4] = NodeTerminal
    /\ EdgesFrom(3) = {}
    /\ Cardinality(EdgesInto(4)) = 1

\* C9: every node other than Init has an incoming edge, so predecessors(n) is
\* never None for a worklist node and the join in mfp never fails.
C9_Predecessors ==
    /\ Lowered => \A n \in NonInit : predecessors(cfg, n) # <<>>
    /\ pc # "panic"

\* C9 witness: mfp has joined the predecessors of every node of a program whose
\* last statement follows a loop with an empty body.
C9_Witness ==
    /\ pc = "mfp_returned"
    /\ prog = <<While(LessEq(Var("y"), Var("x")), <<>>), Skip>>
    /\ iters = 2

AtCond == prog = ProgCond /\ mode = "const_prop" /\ pc = "mfp_returned"

\* C10 as stated: for `if x <= 0 then z := 1 else z := 2 end` the CFG has a
\* Terminal node that constant propagation annotates with z = Top, x = Top and
\* default Const(0).
C10_TerminalJoin ==
    AtCond =>
        \E t \in NodesOf("Terminal") :
            /\ lookup(annot[t].pre, "z") = Top
            /\ lookup(annot[t].pre, "x") = Top
            /\ annot[t].pre.default = Const(0)

\* C10 amended: for `if x <= 0 then z := 1 else z := 2 end` the CFG has no
\* Terminal node (both branches end in Plain loose ends, which are dropped) and
\* so no join point: its nodes are Init, Branch, z := 1 and z := 2, constant
\* propagation gives z = Const(1) after z := 1 and z = Const(2) after z := 2,
\* and no annotation gives z = Top.
C10_NoTerminal ==
    AtCond =>
        /\ NodesOf("Terminal") = {}
        /\ cfg.nodes = <<NodeInit, NodeBranch(LessEq(Var("x"), Num(0))),
                         NodeAssign("z", Num(1)), NodeAssign("z", Num(2))>>
        /\ lookup(annot[3].post, "z") = Const(1)
        /\ lookup(annot[4].post, "z") = Const(2)
        /\ \A n \in node_indices(cfg) :
              lookup(annot[n].pre, "z") # Top /\ lookup(annot[n].post, "z") # Top

\* C10 witness: mfp has returned on the program, both assignments processed.
C10_Witness ==
    /\ AtCond
    /\ iters = 3
    /\ EdgesFrom(3) = {} /\ EdgesFrom(4) = {}

AtSeq == prog = ProgSeq /\ mode = "const_prop" /\ pc = "mfp_returned"

\* C11: for `y := 2; z := y * 3`, in whatever order mfp takes the two Assign
\* nodes, the post annotation of the node of `z := y * 3` gives y = Const(2),
\* z = Const(6), x = Top and has default Const(0).
C11_SeqPost ==
    AtSeq =>
        \A n \in node_indices(cfg) :
            cfg.nodes[n] = NodeAssign("z", Mul(Var("y"), Num(3))) =>
                /\ lookup(annot[n].post, "y") = Const(2)
                /\ lookup(annot[n].post, "z") = Const(6)
                /\ lookup(annot[n].post, "x") = Top
                /\ annot[n].post.default = Const(0)

AtLoop == prog = ProgLoop /\ mode = "avail_exp" /\ pc = "mfp_returned"

\* C12: for `y := x * x; while y <= 10 do y := y + 1 end` the available-
\* expressions result has x*x in the post annotation of the first Assign node
\* and in the pre annotation of the loop-head Branch node and of the loop-body
\* Assign node.
C12_LoopAvailable ==
    AtLoop =>
        \A n \in node_indices(cfg) :
            /\ cfg.nodes[n] = NodeAssign("y", Mul(Var("x"), Var("x"))) =>
                  Mul(Var("x"), Var("x")) \in annot[n].post.set
            /\ cfg.nodes[n] = NodeBranch(LessEq(Var("y"), Num(10))) =>
                  Mul(Var("x"), Var("x")) \in annot[n].pre.set
            /\ cfg.nodes[n] = NodeAssign("y", Add(Var("y"), Num(1))) =>
                  Mul(Var("x"), Var("x")) \in annot[n].pre.set

Transferred == lop = "eval_transfer_function"

\* C13: for every expression set S and node Assign(x, a) the available-
\* expressions transfer function returns S with sub_aexps(a) added and then
\* every expression that mentions x removed.
C13_AssignGenKill ==
    (Transferred /\ lk = "ExpSetLat" /\ ln.tag = "Assign") =>
        lres.fa = clear_var(extend(la, AExp_sub_aexps(ln.a)), ln.v)

\* C14: for every expression set S and node Branch(b) the available-expressions
\* transfer function returns S with sub_aexps(b) added; for Init, Terminal and
\* Skip it returns S.
C14_BranchGen ==
    (Transferred /\ lk = "ExpSetLat") =>
        /\ ln.tag = "Branch" => lres.fa = extend(la, BExp_sub_aexps(ln.b))
        /\ ln.tag \in {"Init", "Terminal", "Skip"} => lres.fa = la

\* C15: join_bin is associative, commutative and idempotent on ConstLat,
\* MultiConstLat (compared by structural equality of map and default) and
\* ExpSetLat.
C15_JoinLaws ==
    /\ lop = "join_bin" => lres.ab = lres.ba /\ lres.aa = la
    /\ lop = "join_bin3" => lres.ab_c = lres.a_bc

\* a variable that is a key of no environment
OtherVar == "w"

\* C16: the environment join is pointwise under lookup: for all environments
\* r1, r2 and every variable v, lookup(join_bin(r1, r2), v) is the ConstLat join
\* of lookup(r1, v) and lookup(r2, v), and the default of the result is the join
\* of the two defaults.
C16_Pointwise ==
    (lop = "join_bin" /\ lk = "MultiConstLat") =>
        /\ \A v \in VarNames \cup {OtherVar} :
              lookup(lres.ab, v) = ConstLat_join_bin(lookup(la, v), lookup(lb, v))
        /\ lres.ab.default = ConstLat_join_bin(la.default, lb.default)

\* const_prop.rs 12: Bot <= Const(n) <= Top
ConstLat_leq(a, b) == a = Bot \/ b = Top \/ a = b
\* environments are ordered variable by variable, under lookup
MultiConstLat_leq(a, b) ==
    \A v \in VarNames \cup {OtherVar} : ConstLat_leq(lookup(a, v), lookup(b, v))
\* avail_exp.rs 11: s1 <= s2 <=> s1.set.is_superset(s2)
ExpSetLat_leq(a, b) == b.set \subseteq a.set
leq(L, a, b) == IF L = "MultiConstLat" THEN MultiConstLat_leq(a, b) ELSE ExpSetLat_leq(a, b)

\* C17: the transfer functions are monotone: for every node and all lattice
\* values a <= b, eval_transfer_function(n, a) <= eval_transfer_function(n, b).
C17_Monotone ==
    (Transferred /\ leq(lk, la, lb)) => leq(lk, lres.fa, lres.fb)

\* C17 witness: the transfer function of `y := x * (y + 1)` has been applied to
\* two different environments a <= b, and the results differ at y.
C17_Witness ==
    /\ Transferred
    /\ lk = "MultiConstLat"
    /\ ln = NodeAssign("y", Mul(Var("x"), Add(Var("y"), Num(1))))
    /\ la # lb
    /\ leq(lk, la, lb)
    /\ lookup(lres.fa, "y") = Const(0)
    /\ lookup(lres.fb, "y") = Top

\* C18: whenever an iteration of mfp on a node n changes post(n), every
\* successor of n is in the worklist after that iteration.
C18_Requeue ==
    [][(pc = "mfp_loop" /\ pc' = "mfp_loop" /\ iters' = iters + 1) =>
          \A n \in NonInit :
              annot'[n].post # annot[n].post =>
                  \A i \in 1..Len(successors(cfg, n)) : successors(cfg, n)[i] \in worklist']_vars

\* C19: when mfp returns, post(n) = eval_transfer_function(node(n), pre(n)) for
\* every non-Init node n, for every program, both lattices and every worklist
\* order.
C19_PostIsTransfer ==
    pc = "mfp_returned" =>
        \A n \in NonInit :
            annot[n].post = eval_transfer_function(lat, cfg.nodes[n], annot[n].pre)

\* C19 witness: constant propagation has returned on `y := x * x; while y <= 10
\* do y := y + 1 end` with the loop body taken from the worklist before the
\* loop head.
C19_Witness ==
    /\ pc = "mfp_returned"
    /\ prog = ProgLoop
    /\ mode = "const_prop"
    /\ iters = 4
    /\ lookup(annot[4].post, "y") = Bot
    /\ lookup(annot[3].post, "y") = Top

\* C20: throughout a run of mfp the Init node is never in the worklist and both
\* its annotations stay init_start(); every other node starts with pre = post =
\* init().
C20_InitUntouched ==
    /\ pc \in {"mfp_loop", "mfp_returned"} =>
          /\ cfg.init \notin worklist
          /\ annot[cfg.init] = MfpAnnot(init_start(lat), init_start(lat))
    /\ (pc = "mfp_loop" /\ iters = 0) =>
          \A n \in NonInit : annot[n] = MfpAnnot(init(lat), init(lat))

\* C20 witness: constant propagation has returned on a loop after processing
\* every other node, the Init node still holds x = Top with default Const(0).
C20_Witness ==
    /\ pc = "mfp_returned"
    /\ mode = "const_prop"
    /\ prog = <<While(LessEq(Var("y"), Var("x")), <<Assign("y", Add(Var("y"), Num(1)))>>)>>
    /\ iters = 3
    /\ annot[cfg.init].post = MultiConstLat_init_start
    /\ lookup(annot[2].post, "x") = Top

\* the nodes of the atom occurrences of a program, nested ones included
RECURSIVE AtomNodes(_)
AtomNodes(p) ==
    IF p = <<>> THEN <<>>
    ELSE LET a == Head(p)
         IN  <<NodeOfAtom(a)>>
               \o (CASE a.tag = "Cond" -> AtomNodes(a.p_tt) \o AtomNodes(a.p_ff)
                     [] a.tag = "While" -> AtomNodes(a.p)
                     [] OTHER -> <<>>)
               \o AtomNodes(Tail(p))
\* how often a value occurs in a sequence
Occurrences(seq, v) == Cardinality({i \in 1..Len(seq) : seq[i] = v})
\* the nodes that can be reached from the nodes S along the edges of cfg
RECURSIVE ReachableFrom(_)
ReachableFrom(S) ==
    LET T == S \cup {cfg.edges[i].tgt : i \in {j \in 1..Len(cfg.edges) : cfg.edges[j].src \in S}}
    IN  IF T = S THEN S ELSE ReachableFrom(T)

\* C21: ast_to_cfg creates exactly one node per atom occurrence of the AST (Skip
\* for Skip, Assign(x, a) for Assign, Branch(b) for Cond and While), plus Init
\* and at most one Terminal, and every node is reachable from Init.
C21_NodePerAtom ==
    Lowered =>
        /\ \A n \in node_indices(cfg) :
              cfg.nodes[n].tag \notin {"Init", "Terminal"} =>
                  Occurrences(cfg.nodes, cfg.nodes[n]) = Occurrences(AtomNodes(prog), cfg.nodes[n])
        /\ Len(cfg.nodes) = Len(AtomNodes(prog)) + 1 + Cardinality(NodesOf("Terminal"))
        /\ Cardinality(NodesOf("Init")) = 1
        /\ Cardinality(NodesOf("Terminal")) <= 1
        /\ ReachableFrom({cfg.init}) = node_indices(cfg)

\* C21 witness: a While whose body is a Cond with the same guard and a Skip in
\* its else branch has been lowered: two equal Branch nodes, a Skip and Terminal.
C21_Witness ==
    /\ Lowered
    /\ prog = <<While(LessEq(Var("y"), Var("x")),
                      <<Cond(LessEq(Var("y"), Var("x")), <<>>, <<Skip>>)>>)>>
    /\ Occurrences(cfg.nodes, NodeBranch(LessEq(Var("y"), Var("x")))) = 2
    /\ Len(cfg.nodes) = 5
    /\ ReachableFrom({cfg.init}) = 1..5

\* C22: the constant-propagation transfer function returns its input
\* environment for Init, Terminal, Skip and Branch nodes; for Assign(x, a) it
\* returns an environment that binds x to eval_aexp(a) of the input environment
\* and agrees with the input on every other variable and on the default; the
\* input environment is not modified.
C22_TransferFrame ==
    [][(lop = "none" /\ lop' = "eval_transfer_function" /\ lk = "MultiConstLat") =>
          /\ la' = la
          /\ ln'.tag \in {"Init", "Terminal", "Skip", "Branch"} => lres'.fa = la
          /\ ln'.tag = "Assign" =>
                /\ lookup(lres'.fa, ln'.v) = MultiConstLat_eval_aexp(la, ln'.a)
                /\ \A v \in (VarNames \cup {OtherVar}) \ {ln'.v} :
                      lookup(lres'.fa, v) = lookup(la, v)
                /\ lres'.fa.default = la.default]_vars

\* C22 witness: the transfer function of `y := x * (y + 1)` has been applied to
\* the environment {x: Const(1), default Const(0)} and has bound y to Const(1).
C22_Witness ==
    /\ Transferred
    /\ lk = "MultiConstLat"
    /\ ln = NodeAssign("y", Mul(Var("x"), Add(Var("y"), Num(1))))
    /\ la = MultiConstLat([v \in {"x"} |-> Const(1)], Const(0))
    /\ lres.fa = MultiConstLat([v \in {"x", "y"} |-> Const(1)], Const(0))

\* C23: in mfp the worklist only ever shrinks: no node is inserted after
\* initialisation, every iteration removes the node it processes, so every
\* non-Init node is processed exactly once and the loop makes exactly |V| - 1
\* iterations on a CFG of |V| nodes, for both lattices.
C23_WorklistShrinks ==
    /\ [](pc \in {"mfp_loop", "mfp_returned"} =>
            /\ iters + Cardinality(worklist) = Len(cfg.nodes) - 1
            /\ pc = "mfp_returned" => iters = Len(cfg.nodes) - 1)
    /\ [][pc = "mfp_loop" =>
            /\ worklist' \subseteq worklist
            /\ iters' = iters + 1 => Cardinality(worklist') = Cardinality(worklist) - 1]_vars

\* C23 witness: constant propagation has returned on `if x <= 0 then y := 1
\* else end; skip` after three iterations on its four nodes, the post
\* annotations of all three non-Init nodes having changed.
C23_Witness ==
    /\ pc = "mfp_returned"
    /\ prog = ProgJoin
    /\ mode = "const_prop"
    /\ Len(cfg.nodes) = 4
    /\ iters = 3
    /\ \A n \in NonInit : annot[n].post # MultiConstLat_init

\* C24: for the available-expressions lattice mfp returns pre = post = the empty
\* set at every node of every CFG.
C24_AllEmpty ==
    (mode = "avail_exp" /\ pc = "mfp_returned") =>
        \A n \in node_indices(cfg) : annot[n] = MfpAnnot(ExpSetLat({}), ExpSetLat({}))

\* C24 witness: available expressions has returned on `y := x * x; while y <= 10
\* do y := y + 1 end` after processing its four non-Init nodes.
C24_Witness ==
    /\ mode = "avail_exp"
    /\ pc = "mfp_returned"
    /\ prog = ProgLoop
    /\ iters = 4
    /\ annot[2].post = ExpSetLat({})

====
